---- MODULE Spec2Model ----
(***************************************************************************)
(* Model of MongoCollection (src/src/collection.ts): the timestamp policy  *)
(* _updateTimestamps / _formatDate, the configuration and database         *)
(* resolution (_getConfig, getDbName, getDb, getCollection) and the CRUD   *)
(* operations that forward to the driver.                                  *)
(***************************************************************************)
EXTENDS Integers, Sequences, FiniteSets, TLC

(***************************************************************************)
(* Bounds of the model.                                                    *)
(***************************************************************************)
\* first wall-clock reading (epoch milliseconds) of a behaviour
ClockMin == 1999
\* how many milliseconds the wall clock may advance in a behaviour
MaxTicks == 1
\* longest document array handed to insertMany
MaxDocs == 2

ClockMax == ClockMin + MaxTicks

(***************************************************************************)
(* JavaScript values.  A value is a record [k, v]: k is the kind, v the    *)
(* payload (a number, a string code where 0 is the empty string, or the    *)
(* instant a date/string was formatted from).                              *)
(***************************************************************************)
Absent == [k |-> "absent", v |-> 0]      \* property not present: reads undefined
Null == [k |-> "null", v |-> 0]
Num(n) == [k |-> "num", v |-> n]
Str(c) == [k |-> "str", v |-> c]         \* Str(0) is ""

\* JavaScript truthiness, as used by the `!x` tests of _updateTimestamps
Truthy(x) ==
    CASE x.k \in {"absent", "null"} -> FALSE
      [] x.k \in {"num", "str"} -> x.v # 0
      [] OTHER -> TRUE

\* property names a document of the model can carry
Keys == {"createdAt", "updatedAt", "born", "name"}

\* an entry of timestampsFields that is not given (reads undefined)
NoName == "<undefined>"

\* truthiness of a field name (`fields.createdAt && ...`)
NameTruthy(n) == n # NoName /\ n # ""

\* a document / update expression: its own properties f, and the `$set`
\* sub-record s (hasSet tells whether the `$set` key is there)
NoProps == [key \in Keys |-> Absent]
EmptyDoc == [f |-> NoProps, hasSet |-> FALSE, s |-> NoProps]

\* document[name]
Get(props, name) == IF name \in Keys THEN props[name] ELSE Absent

(***************************************************************************)
(* _formatDate(date, format); date is given by its epoch milliseconds.     *)
(***************************************************************************)
Formats == {"ISODate", "Date", "Unix", "Millis", "Utc"}
NoFormat == "<undefined>"

_formatDate(ms, format) ==
    CASE format = "ISODate" -> [k |-> "iso", v |-> ms]
      [] format = "Date" -> [k |-> "date", v |-> ms]
      [] format = "Unix" -> Num(ms \div 1000)
      [] format = "Millis" -> Num(ms)
      [] format = "Utc" -> [k |-> "utc", v |-> ms \div 1000]
      [] OTHER -> Absent

(***************************************************************************)
(* CollectionConfig, as returned by getConfig().                           *)
(***************************************************************************)
NoFields == [given |-> FALSE, createdAt |-> NoName, updatedAt |-> NoName]
DefaultFields == [given |-> TRUE, createdAt |-> "createdAt", updatedAt |-> "updatedAt"]

\* timestampsFields: LeastOne<{createdAt, updatedAt}>
FieldsChoices ==
    {NoFields} \cup
    ({[given |-> TRUE, createdAt |-> c, updatedAt |-> u] :
        c \in {NoName, "createdAt", "born"}, u \in {NoName, "updatedAt", "born"}}
     \ {[given |-> TRUE, createdAt |-> NoName, updatedAt |-> NoName]})

\* database: a name, a Db handle (with its databaseName), or anything else
DatabaseChoices ==
    {[kind |-> "string", name |-> "app"],
     [kind |-> "Db", name |-> "handle_db"],
     [kind |-> "other", name |-> ""]}

\* timestamps?: boolean
TimestampsChoices == {"true", "false", "undefined"}

OnlyCreated == [given |-> TRUE, createdAt |-> "born", updatedAt |-> NoName]
BothRenamed == [given |-> TRUE, createdAt |-> "born", updatedAt |-> "updatedAt"]

\* the configurations of the model: every timestamp configuration with the
\* database given by name and no client, and every database / client
\* combination with every timestamp configuration of two of the formats
Configs ==
    {c \in [name : {"users"},
            database : DatabaseChoices,
            client : BOOLEAN,
            timestamps : TimestampsChoices,
            timestampsFormat : Formats \cup {NoFormat},
            timestampsFields : FieldsChoices] :
        \/ c.database.kind = "string" /\ ~c.client
        \/ c.timestampsFormat \in {NoFormat, "ISODate"}}

\* variant: each missing entry of timestampsFields defaulted on its own
ResolveFields_merged(cfg) ==
    [given |-> TRUE,
     createdAt |-> IF cfg.timestampsFields.createdAt = NoName
                   THEN "createdAt" ELSE cfg.timestampsFields.createdAt,
     updatedAt |-> IF cfg.timestampsFields.updatedAt = NoName
                   THEN "updatedAt" ELSE cfg.timestampsFields.updatedAt]

\* `this._getConfig().timestampsFields || {createdAt: 'createdAt', updatedAt: 'updatedAt'}`
ResolveFields(cfg) ==
    IF cfg.timestampsFields.given THEN cfg.timestampsFields ELSE DefaultFields

\* `this._getConfig().timestampsFormat || 'Millis'`
ResolveFormat(cfg) ==
    IF cfg.timestampsFormat = NoFormat THEN "Millis" ELSE cfg.timestampsFormat

(***************************************************************************)
(* _updateTimestamps(document, isInsert) on the value of the document,     *)
(* with the configuration cfg and `new Date()` reading ms.                 *)
(***************************************************************************)
StampInsertField(props, name, formattedDate) ==
    IF NameTruthy(name) /\ name \in Keys /\ ~Truthy(Get(props, name))
    THEN [props EXCEPT ![name] = formattedDate]
    ELSE props

\* variant: `$set` is always replaced by a fresh record
StampUpdate_freshSet(doc, name, formattedDate) ==
    IF NameTruthy(name)
    THEN [doc EXCEPT !.hasSet = TRUE,
                     !.s = IF name \in Keys
                           THEN [NoProps EXCEPT ![name] = formattedDate]
                           ELSE NoProps]
    ELSE doc

StampUpdate(doc, name, formattedDate) ==
    IF NameTruthy(name)
    THEN LET set0 == IF doc.hasSet THEN doc.s ELSE NoProps
             set1 == IF name \in Keys /\ ~Truthy(Get(set0, name))
                     THEN [set0 EXCEPT ![name] = formattedDate]
                     ELSE set0
         IN  [doc EXCEPT !.hasSet = TRUE, !.s = set1]
    ELSE doc

\* variant: timestamps are on unless switched off
_updateTimestamps_defaultOn(doc, isInsert, cfg, ms) ==
    IF cfg.timestamps # "false"
    THEN LET formattedDate == _formatDate(ms, ResolveFormat(cfg))
             fields == ResolveFields(cfg)
         IN  IF isInsert
             THEN [doc EXCEPT !.f =
                      StampInsertField(
                          StampInsertField(doc.f, fields.createdAt, formattedDate),
                          fields.updatedAt, formattedDate)]
             ELSE StampUpdate(doc, fields.updatedAt, formattedDate)
    ELSE doc

\* variant: the clock is read again for the updated field
_updateTimestamps_twoReads(doc, isInsert, cfg, ms) ==
    IF cfg.timestamps = "true"
    THEN LET fields == ResolveFields(cfg)
         IN  IF isInsert
             THEN [doc EXCEPT !.f =
                      StampInsertField(
                          StampInsertField(doc.f, fields.createdAt,
                                           _formatDate(ms, ResolveFormat(cfg))),
                          fields.updatedAt, _formatDate(ms + 1000, ResolveFormat(cfg)))]
             ELSE StampUpdate(doc, fields.updatedAt, _formatDate(ms, ResolveFormat(cfg)))
    ELSE doc

_updateTimestamps(doc, isInsert, cfg, ms) ==
    IF cfg.timestamps = "true"
    THEN LET format == ResolveFormat(cfg)
             formattedDate == _formatDate(ms, format)
             fields == ResolveFields(cfg)
         IN  IF isInsert
             THEN [doc EXCEPT !.f =
                      StampInsertField(
                          StampInsertField(doc.f, fields.createdAt, formattedDate),
                          fields.updatedAt, formattedDate)]
             ELSE StampUpdate(doc, fields.updatedAt, formattedDate)
    ELSE doc

(***************************************************************************)
(* Objects.  A call works on the objects the caller passes: heap is the    *)
(* sequence of those objects and a reference is an index into it, so that  *)
(* "the same object" is "the same reference".                              *)
(***************************************************************************)
\* variant: a copy of the document is stamped and returned
UpdateTimestampsAt_copy(h, ref, isInsert, cfg, ms) ==
    [heap |-> Append(h, _updateTimestamps(h[ref], isInsert, cfg, ms)),
     ret |-> Len(h) + 1]

\* _updateTimestamps mutates the object behind ref and returns that object
UpdateTimestampsAt(h, ref, isInsert, cfg, ms) ==
    [heap |-> [h EXCEPT ![ref] = _updateTimestamps(h[ref], isInsert, cfg, ms)],
     ret |-> ref]

(***************************************************************************)
(* A collection class: whether its prototype has getConfig, and what       *)
(* getConfig() returns.                                                    *)
(***************************************************************************)
PlainConfig ==
    [name |-> "users", database |-> [kind |-> "string", name |-> "app"],
     client |-> FALSE, timestamps |-> "undefined",
     timestampsFormat |-> NoFormat, timestampsFields |-> NoFields]

Classes ==
    {[getConfig |-> TRUE, config |-> c] : c \in Configs}
    \cup {[getConfig |-> FALSE, config |-> PlainConfig]}

\* _getConfig(): the error it throws, or "none"
_getConfig(class) == IF class.getConfig THEN "none" ELSE "MongoError"

\* variant: no check of what `database` is
getDbName_unchecked(class) ==
    IF _getConfig(class) # "none" THEN [err |-> _getConfig(class), name |-> ""]
    ELSE [err |-> "none", name |-> class.config.database.name]

\* getDbName(): [err, name]
getDbName(class) ==
    IF _getConfig(class) # "none" THEN [err |-> _getConfig(class), name |-> ""]
    ELSE IF class.config.database.kind = "string"
         THEN [err |-> "none", name |-> class.config.database.name]
    ELSE IF class.config.database.kind = "Db"
         THEN [err |-> "none", name |-> class.config.database.name]
    ELSE [err |-> "Error", name |-> ""]

\* getDb(): the Db comes from config.client when given, else from MongoDB;
\* dbUp tells whether that lookup succeeds
getDb(class, dbUp) ==
    LET n == getDbName(class)
        via == IF class.config.client THEN "client" ELSE "MongoDB"
    IN  IF _getConfig(class) # "none"
        THEN [err |-> _getConfig(class), db |-> "", via |-> ""]
        ELSE IF n.err # "none" THEN [err |-> n.err, db |-> "", via |-> ""]
        ELSE IF ~dbUp THEN [err |-> "DriverError", db |-> "", via |-> via]
        ELSE [err |-> "none", db |-> n.name, via |-> via]

\* getCollectionName()
getCollectionName(class) == class.config.name

\* getCollection(): [err, db, via, name]
getCollection(class, dbUp) ==
    LET d == getDb(class, dbUp)
    IN  IF d.err # "none"
        THEN [err |-> d.err, db |-> "", via |-> d.via, name |-> ""]
        ELSE [err |-> "none", db |-> d.db, via |-> d.via,
              name |-> getCollectionName(class)]

(***************************************************************************)
(* What callers pass.                                                      *)
(***************************************************************************)
\* documents handed to insertOne
InsertDocs ==
    {[f |-> [createdAt |-> c, updatedAt |-> u, born |-> b, name |-> n],
      hasSet |-> FALSE, s |-> NoProps] :
        c \in {Absent, Num(0), Num(42)}, u \in {Absent, Null, Str(7)},
        b \in {Absent, Str(0), Num(42)}, n \in {Absent, Str(1)}}
    \cup {[f |-> NoProps, hasSet |-> TRUE, s |-> [NoProps EXCEPT !["name"] = Str(1)]]}

\* update expressions handed to updateOne / updateMany
UpdateDocs ==
    {[f |-> [NoProps EXCEPT !["name"] = n], hasSet |-> FALSE, s |-> NoProps] :
        n \in {Absent, Str(1)}}
    \cup
    {[f |-> [NoProps EXCEPT !["updatedAt"] = t], hasSet |-> TRUE,
      s |-> [createdAt |-> Absent, updatedAt |-> u, born |-> b, name |-> n]] :
        t \in {Absent, Num(42)}, u \in {Absent, Num(0), Num(42)},
        b \in {Absent, Str(0), Num(42)}, n \in {Absent, Str(1)}}

\* elements of the arrays handed to insertMany
ManyDocs ==
    {[f |-> [createdAt |-> c, updatedAt |-> u, born |-> Absent, name |-> Absent],
      hasSet |-> FALSE, s |-> NoProps] :
        c \in {Absent, Num(42)}, u \in {Absent, Num(0)}}

\* the arrays of n references over k objects: every object is an element,
\* and objects are numbered in the order of their first occurrence
ArraysOver(n, k) ==
    {arr \in [1..n -> 1..k] :
        /\ \A r \in 1..k : \E i \in 1..n : arr[i] = r
        /\ \A i \in 1..n : \A r \in 1..(arr[i] - 1) : \E j \in 1..(i - 1) : arr[j] = r}

\* clock readings of one insertMany call: one `new Date()` per element
Readings(n, from) ==
    {t \in [1..n -> from..ClockMax] : \A i \in 1..(n - 1) : t[i] <= t[i + 1]}

(***************************************************************************)
(* State.                                                                  *)
(***************************************************************************)
VARIABLES
    class,      \* the collection class the calls are made on
    clock,      \* wall clock, epoch milliseconds
    op,         \* the last operation called ("none" before the first)
    args,       \* its document arguments, as references into heap
    pre,        \* the caller's objects as they were passed in
    heap,       \* the caller's objects now
    forwarded,  \* the calls that reached the driver's collection
    error       \* what the call rejected with ("none": it did not)

vars == <<class, clock, op, args, pre, heap, forwarded, error>>

Init ==
    /\ class \in Classes
    /\ clock = ClockMin
    /\ op = "none"
    /\ args = <<>>
    /\ pre = <<>>
    /\ heap = <<>>
    /\ forwarded = <<>>
    /\ error = "none"

\* the wall clock advances (between calls)
Tick ==
    /\ op = "none"
    /\ clock < ClockMax
    /\ clock' = clock + 1
    /\ UNCHANGED <<class, op, args, pre, heap, forwarded, error>>

\* the driver call a CRUD operation ends with
DriverCall(name, coll, docs) ==
    [op |-> name, db |-> coll.db, via |-> coll.via, collection |-> coll.name,
     docs |-> docs]

\* findOne, find, deleteOne, deleteMany: resolve the collection and forward
Passthrough(name) ==
    /\ op = "none"
    /\ \E dbUp \in BOOLEAN :
        LET coll == getCollection(class, dbUp)
        IN  /\ op' = name
            /\ args' = <<>>
            /\ pre' = <<>>
            /\ heap' = <<>>
            /\ error' = coll.err
            /\ forwarded' = IF coll.err = "none"
                            THEN <<DriverCall(name, coll, <<>>)>> ELSE <<>>
            /\ UNCHANGED <<class, clock>>

findOne == Passthrough("findOne")
find == Passthrough("find")
deleteOne == Passthrough("deleteOne")
deleteMany == Passthrough("deleteMany")

\* variant: the argument is stamped before the collection is resolved
Single_stampFirst(name, docs, isInsert) ==
    /\ op = "none"
    /\ \E d \in docs, dbUp \in BOOLEAN :
        LET coll == getCollection(class, dbUp)
            st == UpdateTimestampsAt(<<d>>, 1, isInsert, class.config, clock)
        IN  /\ op' = name
            /\ args' = <<1>>
            /\ pre' = <<d>>
            /\ error' = IF class.getConfig THEN coll.err ELSE "MongoError"
            /\ heap' = IF class.getConfig THEN st.heap ELSE <<d>>
            /\ forwarded' = IF coll.err = "none"
                            THEN <<DriverCall(name, coll, <<st.ret>>)>> ELSE <<>>
            /\ UNCHANGED <<class, clock>>

\* insertOne, updateOne, updateMany: getCollection() is evaluated before the
\* argument this._updateTimestamps(...)
Single(name, docs, isInsert) ==
    /\ op = "none"
    /\ \E d \in docs, dbUp \in BOOLEAN :
        LET coll == getCollection(class, dbUp)
            st == UpdateTimestampsAt(<<d>>, 1, isInsert, class.config, clock)
        IN  /\ op' = name
            /\ args' = <<1>>
            /\ pre' = <<d>>
            /\ error' = coll.err
            /\ heap' = IF coll.err = "none" THEN st.heap ELSE <<d>>
            /\ forwarded' = IF coll.err = "none"
                            THEN <<DriverCall(name, coll, <<st.ret>>)>> ELSE <<>>
            /\ UNCHANGED <<class, clock>>

insertOne == Single("insertOne", InsertDocs, TRUE)
updateOne == Single("updateOne", UpdateDocs, FALSE)
updateMany == Single("updateMany", UpdateDocs, FALSE)

\* variant: the map starts at the second element
RECURSIVE MapHeap_skipFirst(_, _, _, _, _)
MapHeap_skipFirst(h, arr, t, cfg, i) ==
    IF i <= 1 THEN h
    ELSE UpdateTimestampsAt(MapHeap_skipFirst(h, arr, t, cfg, i - 1),
                            arr[i], TRUE, cfg, t[i]).heap

\* documents.map(document => this._updateTimestamps(document, true)):
\* the objects after the callback ran on the first i elements
RECURSIVE MapHeap(_, _, _, _, _)
MapHeap(h, arr, t, cfg, i) ==
    IF i = 0 THEN h
    ELSE UpdateTimestampsAt(MapHeap(h, arr, t, cfg, i - 1), arr[i], TRUE, cfg, t[i]).heap

\* ... and the array the map returns: what the callback returned per element
MapOut(h, arr, t, cfg) ==
    [i \in 1..Len(arr) |->
        UpdateTimestampsAt(MapHeap(h, arr, t, cfg, i - 1), arr[i], TRUE, cfg, t[i]).ret]

\* insertMany: the map runs first, then getCollection()
insertMany ==
    /\ op = "none"
    /\ \E n \in 0..MaxDocs :
      \E t \in Readings(n, clock), k \in 0..n :
        \E arr \in ArraysOver(n, k), h \in [1..k -> ManyDocs], dbUp \in BOOLEAN :
            LET mapErr == IF n > 0 THEN _getConfig(class) ELSE "none"
                coll == getCollection(class, dbUp)
            IN  /\ op' = "insertMany"
                /\ args' = arr
                /\ pre' = h
                /\ clock' = IF n > 0 /\ mapErr = "none" /\ class.config.timestamps = "true"
                            THEN t[n] ELSE clock
                /\ heap' = IF mapErr = "none"
                           THEN MapHeap(h, arr, t, class.config, n) ELSE h
                /\ error' = IF mapErr # "none" THEN mapErr ELSE coll.err
                /\ forwarded' = IF mapErr = "none" /\ coll.err = "none"
                                THEN <<DriverCall("insertMany", coll,
                                                  MapOut(h, arr, t, class.config))>>
                                ELSE <<>>
                /\ UNCHANGED class

\* the caller has taken the outcome of the call; the next call starts afresh
Settle ==
    /\ op # "none"
    /\ op' = "none"
    /\ args' = <<>>
    /\ pre' = <<>>
    /\ heap' = <<>>
    /\ forwarded' = <<>>
    /\ error' = "none"
    /\ UNCHANGED <<class, clock>>

Next ==
    \/ Tick
    \/ Settle
    \/ findOne
    \/ find
    \/ insertOne
    \/ insertMany
    \/ updateOne
    \/ updateMany
    \/ deleteOne
    \/ deleteMany

Spec == Init /\ [][Next]_vars

(***************************************************************************)
(* Properties.                                                             *)
(***************************************************************************)
cfg == class.config
fields == ResolveFields(cfg)
InsertOps == {"insertOne", "insertMany"}
UpdateOps == {"updateOne", "updateMany"}

\* timestamps are enabled in the resolved configuration
Enabled == class.getConfig /\ cfg.timestamps = "true"

\* the timestamp policy has run on the objects of the last call
Applied ==
    \/ op \in {"insertOne", "updateOne", "updateMany"} /\ error = "none"
    \/ op = "insertMany" /\ class.getConfig /\ Len(args) > 0

\* the configured created / updated field names that name a field
StampNames == {n \in {fields.createdAt, fields.updatedAt} : NameTruthy(n)}

\* C1: in insert mode with timestamps enabled, a created or updated field
\* the caller supplied keeps the caller's value whatever it is, and a field
\* the caller did not supply is stamped.
C1_SuppliedTimestampKept ==
    (op \in InsertOps /\ Applied /\ Enabled) =>
        \A r \in DOMAIN pre : \A n \in StampNames :
            IF pre[r].f[n] # Absent
            THEN heap[r].f[n] = pre[r].f[n]
            ELSE heap[r].f[n] # Absent

\* C2: in update mode with timestamps enabled, an updated field that is
\* already a key of `$set` keeps its value.
C2_SetUpdatedKept ==
    (op \in UpdateOps /\ Applied /\ Enabled /\ NameTruthy(fields.updatedAt)) =>
        \A r \in DOMAIN pre :
            (pre[r].hasSet /\ pre[r].s[fields.updatedAt] # Absent) =>
                heap[r].s[fields.updatedAt] = pre[r].s[fields.updatedAt]

C4_BothStampedEqual ==
    (op \in InsertOps /\ Applied /\ Enabled
        /\ NameTruthy(fields.createdAt) /\ NameTruthy(fields.updatedAt)) =>
        \A r \in DOMAIN pre :
            (pre[r].f[fields.createdAt] = Absent /\ pre[r].f[fields.updatedAt] = Absent) =>
                /\ heap[r].f[fields.createdAt] # Absent
                /\ heap[r].f[fields.updatedAt] = heap[r].f[fields.createdAt]
                /\ cfg.timestampsFormat \in {NoFormat, "Millis"} =>
                       \E now \in ClockMin..clock : heap[r].f[fields.createdAt] = Num(now)
                /\ (op = "insertOne" /\ cfg.timestampsFormat \in {NoFormat, "Millis"}) =>
                       heap[r].f[fields.createdAt] = Num(clock)

C4_Witness ==
    /\ op = "insertOne" /\ error = "none" /\ Enabled
    /\ cfg.timestampsFormat = NoFormat /\ cfg.timestampsFields = NoFields
    /\ pre[1].f["createdAt"] = Absent /\ pre[1].f["updatedAt"] = Absent
    /\ heap[1].f["createdAt"] = Num(clock) /\ heap[1].f["updatedAt"] = Num(clock)

\* the field names with each missing entry defaulted on its own
CreatedDefaulted ==
    IF cfg.timestampsFields.createdAt = NoName THEN "createdAt"
    ELSE cfg.timestampsFields.createdAt
UpdatedDefaulted ==
    IF cfg.timestampsFields.updatedAt = NoName THEN "updatedAt"
    ELSE cfg.timestampsFields.updatedAt

\* C5 as stated: each missing entry of timestampsFields is defaulted on its
\* own, so with timestamps enabled an insert always leaves a created and an
\* updated field on the document and an update always leaves an updated
\* field under `$set`.
C5_EntriesDefaultedIndividually ==
    (Applied /\ Enabled) =>
        \A r \in DOMAIN pre :
            /\ op \in InsertOps =>
                  /\ heap[r].f[CreatedDefaulted] # Absent
                  /\ heap[r].f[UpdatedDefaulted] # Absent
            /\ op \in UpdateOps =>
                  heap[r].hasSet /\ heap[r].s[UpdatedDefaulted] # Absent

\* C5 amended: the names default only when timestampsFields is absent as a
\* whole (then to createdAt / updatedAt, and an insert leaves both fields,
\* an update leaves `$set.updatedAt`); when timestampsFields is given, an
\* entry it does not name is not defaulted and nothing is stamped for it:
\* an insert writes only the named field, and an update with no updatedAt
\* entry leaves the update expression as it was.
C5_DefaultsOnlyWhenAbsent ==
    (Applied /\ Enabled) =>
        \A r \in DOMAIN pre :
            /\ (~cfg.timestampsFields.given /\ op \in InsertOps) =>
                  heap[r].f["createdAt"] # Absent /\ heap[r].f["updatedAt"] # Absent
            /\ (~cfg.timestampsFields.given /\ op \in UpdateOps) =>
                  heap[r].hasSet /\ heap[r].s["updatedAt"] # Absent
            /\ (cfg.timestampsFields.given /\ op \in InsertOps) =>
                  /\ \A key \in Keys \ {cfg.timestampsFields.createdAt,
                                         cfg.timestampsFields.updatedAt} :
                         heap[r].f[key] = pre[r].f[key]
                  /\ \A n \in {cfg.timestampsFields.createdAt,
                                cfg.timestampsFields.updatedAt} \ {NoName} :
                         heap[r].f[n] # Absent
            /\ (cfg.timestampsFields.given /\ op \in UpdateOps) =>
                  IF cfg.timestampsFields.updatedAt = NoName
                  THEN heap[r] = pre[r]
                  ELSE heap[r].hasSet /\ heap[r].s[cfg.timestampsFields.updatedAt] # Absent

C5_Witness ==
    /\ op = "insertOne" /\ error = "none" /\ Enabled
    /\ cfg.timestampsFields = OnlyCreated
    /\ pre[1].f = NoProps
    /\ heap[1].f["born"] # Absent
    /\ heap[1].f["updatedAt"] = Absent

\* the value the policy writes in a single-document call
formattedNow == _formatDate(clock, ResolveFormat(cfg))

\* C6: in update mode with timestamps enabled, `{}` under the default
\* fields becomes exactly `{ $set: { updatedAt: formattedNow } }`; an update
\* expression without `$set` gets a `$set` holding just the updated field;
\* an existing `$set` keeps its other entries and gains the updated field.
C6_SetCreatedOrExtended ==
    (op \in UpdateOps /\ Applied /\ Enabled /\ NameTruthy(fields.updatedAt)) =>
        LET u == fields.updatedAt
        IN  /\ (pre[1] = EmptyDoc /\ ~cfg.timestampsFields.given) =>
                  heap[1] = [f |-> NoProps, hasSet |-> TRUE,
                             s |-> [NoProps EXCEPT !["updatedAt"] = formattedNow]]
            /\ ~pre[1].hasSet =>
                  /\ heap[1].hasSet
                  /\ heap[1].s = [NoProps EXCEPT ![u] = formattedNow]
            /\ pre[1].hasSet =>
                  /\ heap[1].hasSet
                  /\ \A key \in Keys \ {u} : heap[1].s[key] = pre[1].s[key]
                  /\ pre[1].s[u] = Absent => heap[1].s[u] = formattedNow

C6_Witness ==
    /\ op = "updateMany" /\ error = "none" /\ Enabled
    /\ ~cfg.timestampsFields.given
    /\ pre[1].hasSet /\ pre[1].s["name"] = Str(1) /\ pre[1].s["updatedAt"] = Absent
    /\ heap[1].s["name"] = Str(1) /\ heap[1].s["updatedAt"] = formattedNow

\* C7: a class without getConfig fails every operation with the
\* configuration error (MongoError); a `database` that is neither a string
\* nor a Db fails it with the other error (Error); a failed call never
\* reaches the driver; a call that reaches the driver uses the string, or
\* the handle's databaseName, as the database name.
C7_ResolutionErrors ==
    op # "none" =>
        /\ ~class.getConfig => error = "MongoError"
        /\ (class.getConfig /\ cfg.database.kind = "other") => error = "Error"
        /\ error # "none" => forwarded = <<>>
        /\ error = "none" =>
              /\ Len(forwarded) = 1
              /\ forwarded[1].op = op
              /\ cfg.database.kind \in {"string", "Db"}
              /\ forwarded[1].db = cfg.database.name

C7_Witness ==
    /\ op = "deleteMany"
    /\ class.getConfig /\ cfg.database.kind = "other"
    /\ error = "Error"
    /\ forwarded = <<>>

\* C8: when insertMany reaches the driver, the array forwarded has the
\* elements of the array supplied, in their order, and every element has
\* been stamped by the insert rules from its own fields as passed in.
C8_ManyStampedBeforeForward ==
    (op = "insertMany" /\ forwarded # <<>>) =>
        /\ forwarded[1].docs = args
        /\ Len(heap) = Len(pre)
        /\ \A r \in DOMAIN pre :
              \E now \in ClockMin..clock :
                  heap[r] = _updateTimestamps(pre[r], TRUE, cfg, now)

C8_Witness ==
    /\ op = "insertMany" /\ forwarded # <<>> /\ Enabled
    /\ ~cfg.timestampsFields.given
    /\ Len(args) = 2 /\ args[1] # args[2]
    /\ pre[1].f["createdAt"] = Num(42) /\ pre[2].f["createdAt"] = Absent
    /\ heap[1].f["createdAt"] = Num(42)
    /\ heap[2].f["createdAt"] \notin {Absent, Num(42)}
    /\ heap[1].f["updatedAt"] # heap[2].f["updatedAt"]

\* C9: the policy only adds: no key is removed; in insert mode only the
\* created / updated fields may change and `$set` is left as it was; in
\* update mode only `$set` and the updated field under it may change; the
\* object handed on is the object passed in.
C9_PurelyAdditive ==
    (op \in InsertOps \cup UpdateOps) =>
        /\ Len(heap) = Len(pre)
        /\ \A i \in DOMAIN forwarded : forwarded[i].docs = args
        /\ \A r \in DOMAIN pre :
              /\ \A key \in Keys :
                    /\ pre[r].f[key] # Absent => heap[r].f[key] # Absent
                    /\ pre[r].s[key] # Absent => heap[r].s[key] # Absent
              /\ pre[r].hasSet => heap[r].hasSet
              /\ op \in InsertOps =>
                    /\ \A key \in Keys \ StampNames : heap[r].f[key] = pre[r].f[key]
                    /\ heap[r].hasSet = pre[r].hasSet
                    /\ heap[r].s = pre[r].s
              /\ op \in UpdateOps =>
                    /\ heap[r].f = pre[r].f
                    /\ \A key \in Keys \ {fields.updatedAt} : heap[r].s[key] = pre[r].s[key]

C9_Witness ==
    /\ op = "updateOne" /\ error = "none" /\ Enabled
    /\ fields.updatedAt = "updatedAt"
    /\ pre[1].f["updatedAt"] = Num(42) /\ pre[1].s["born"] = Num(42)
    /\ pre[1].s["updatedAt"] = Absent
    /\ heap[1].s["updatedAt"] # Absent
    /\ heap[1].f["updatedAt"] = Num(42) /\ heap[1].s["born"] = Num(42)

\* C10: when insertOne, updateOne or updateMany rejects because the
\* collection cannot be resolved, the caller's object is as it was passed in.
C10_FailedCallLeavesArgument ==
    (op \in {"insertOne", "updateOne", "updateMany"} /\ error # "none") =>
        heap = pre /\ forwarded = <<>>

C10_Witness ==
    /\ op = "insertOne" /\ error = "DriverError" /\ Enabled
    /\ ~cfg.timestampsFields.given
    /\ pre[1].f["createdAt"] = Absent /\ heap[1].f["createdAt"] = Absent

====
